---- MODULE Spec2Model ----
(***************************************************************************)
(* Model of frontend/src/setupTests.js: the test-environment bootstrap     *)
(* that imports '@testing-library/jest-dom' and installs the               *)
(* setImmediate / clearImmediate shims on the global object when they are  *)
(* missing.                                                                *)
(*                                                                         *)
(* The module body (lines 5-18) is the Load action.  The two shim          *)
(* functions (lines 9-11 and 15-17) are the operators ShimClearImmediate   *)
(* and ShimSetImmediate; they forward to the host's clearTimeout and       *)
(* setTimeout.  The host (timer queue, native immediates, event loop) is   *)
(* not part of the repository; it is modelled with the one ordering rule   *)
(* every host gives: a timer fires only when the call stack is empty and   *)
(* no zero-delay timer registered earlier is still pending before a        *)
(* zero-delay timer.  When a timer of positive delay becomes due is left   *)
(* open: the model allows every order a host clock could produce.          *)
(***************************************************************************)
EXTENDS Integers, Sequences, FiniteSets

\* ------------------------------------------------------------------ bounds
MaxCalls == 3     \* scheduling calls (setImmediate / setTimeout) made by tests
MaxLoads == 2     \* evaluations of the setupTests module

VARIABLES
  pkgPresent,   \* whether '@testing-library/jest-dom' can be resolved
  extended,     \* whether the jest-dom matchers are registered on expect
  pc,           \* "running", or "crashed" once the module load has thrown
  gSet,         \* global.setImmediate
  gClr,         \* global.clearImmediate
  pre,          \* the two bindings as they were before the first load
  loads,        \* completed evaluations of the module
  host,         \* timers, native immediates, log of executed callbacks
  held,         \* per scheduled callback: how it was scheduled, handle returned
  clearedCI,    \* callbacks whose handle went to global.clearImmediate before firing
  clearedCT,    \* callbacks whose handle went to clearTimeout before firing
  inTurn        \* TRUE while synchronous code is on the call stack

vars == <<pkgPresent, extended, pc, gSet, gClr, pre, loads, host,
          held, clearedCI, clearedCT, inTurn>>

\* ------------------------------------------------------------- values
\* typeof x === 'undefined'
Undefined == <<"undefined", 0>>
\* A function object provided by the runtime itself.
Native == <<"native", 0>>
\* The function object created by the k-th evaluation of the module: every
\* evaluation of a function expression yields a new object.
Shim(k) == <<"shim", k>>

IsShim(b) == b[1] = "shim"
IsFunction(b) == b # Undefined

TimeoutHandle(n) == <<"Timeout", n>>
ImmediateHandle(n) == <<"Immediate", n>>
NoHandle == <<"undefined", 0>>

\* ------------------------------------------------------------- host
\* A callback is called: it is logged, with whether synchronous code was
\* already on the call stack at that moment.
Invoke(h, fn) == [h EXCEPT !.ran = Append(@, [fn |-> fn, sync |-> inTurn])]

\* setTimeout(fn, delay): a new pending timer, and its handle.
setTimeout(h, fn, delay) ==
  [host |-> [h EXCEPT !.timers = Append(@, [id |-> h.nextT, fn |-> fn,
                                            delay |-> delay]),
                      !.nextT = @ + 1],
   ret  |-> TimeoutHandle(h.nextT)]

\* clearTimeout(id): the pending timer with that handle, if any, is dropped.
clearTimeout(h, id) ==
  [h EXCEPT !.timers = SelectSeq(@, LAMBDA t : TimeoutHandle(t.id) # id)]

\* The runtime's own setImmediate: a queue apart from the timers.
NativeSetImmediate(h, fn) ==
  [host |-> [h EXCEPT !.immediates = Append(@, [id |-> h.nextI, fn |-> fn]),
                      !.nextI = @ + 1],
   ret  |-> ImmediateHandle(h.nextI)]

\* The runtime's own clearImmediate: it only looks at the immediate queue.
NativeClearImmediate(h, id) ==
  [h EXCEPT !.immediates = SelectSeq(@, LAMBDA t : ImmediateHandle(t.id) # id)]

\* ------------------------------------------------------------- the shims
\* Mutant: the cancellation is dropped.
ShimClearImmediateNoop(h, id) == h

\* Mutant: every pending timer is cancelled, not only the one named.
ShimClearImmediateAll(h, id) == [h EXCEPT !.timers = <<>>]

\* global.clearImmediate = function(id) { clearTimeout(id); }
ShimClearImmediate(h, id) == clearTimeout(h, id)

\* Mutant: the callback is also called inline.
ShimSetImmediateInline(h, fn) ==
  LET r == setTimeout(h, fn, 0) IN [host |-> Invoke(r.host, fn), ret |-> r.ret]

\* Mutant: the delay is not the same for every call.
ShimSetImmediateVaryingDelay(h, fn) ==
  setTimeout(h, fn, IF Len(h.timers) = 0 THEN 1 ELSE 0)

\* Mutant: the callback is registered twice.
ShimSetImmediateTwice(h, fn) == setTimeout(setTimeout(h, fn, 0).host, fn, 0)

\* global.setImmediate = function(fn) { return setTimeout(fn, 0); }
ShimSetImmediate(h, fn) == setTimeout(h, fn, 0)

\* ------------------------------------------------------------- module body
\* Mutant: the guard is missing.
InstallClearAlways(g, k) == [g EXCEPT !.clr = Shim(k)]

\* if (typeof global.clearImmediate === 'undefined') { global.clearImmediate = ... }
InstallClear(g, k) == IF g.clr = Undefined THEN [g EXCEPT !.clr = Shim(k)] ELSE g

\* Mutant: the guard is missing.
InstallSetAlways(g, k) == [g EXCEPT !.set = Shim(k)]

\* if (typeof global.setImmediate === 'undefined') { global.setImmediate = ... }
InstallSet(g, k) == IF g.set = Undefined THEN [g EXCEPT !.set = Shim(k)] ELSE g

\* Mutant: the second guard hangs off the first as an else-branch.
BootstrapElseIf(g, k, ok) ==
  IF ~ok THEN g
  ELSE IF g.clr = Undefined THEN InstallClear(g, k) ELSE InstallSet(g, k)

\* Mutant: the shims are installed although the import threw.
BootstrapCatch(g, k, ok) == InstallSet(InstallClear(g, k), k)

\* The module body.  An import is evaluated before the statements of the
\* importing module; when it throws, none of them runs.
Bootstrap(g, k, ok) == IF ~ok THEN g ELSE InstallSet(InstallClear(g, k), k)

\* ------------------------------------------------------------- initial state
Bindings == {Undefined, Native}

Init ==
  /\ pkgPresent \in BOOLEAN
  /\ extended = FALSE
  /\ pc = "running"
  /\ gSet \in Bindings
  /\ gClr \in Bindings
  /\ pre = [set |-> gSet, clr |-> gClr]
  /\ loads = 0
  /\ host = [timers |-> <<>>, nextT |-> 1, immediates |-> <<>>, nextI |-> 1,
             ran |-> <<>>]
  /\ held = <<>>
  /\ clearedCI = {}
  /\ clearedCT = {}
  /\ inTurn = FALSE

\* ------------------------------------------------------------- actions
\* One evaluation of setupTests.js.  It is synchronous: nothing else runs
\* between its first and its last statement.
Load ==
  /\ pc = "running"
  /\ ~inTurn
  /\ loads < MaxLoads
  /\ LET g == Bootstrap([set |-> gSet, clr |-> gClr], loads + 1, pkgPresent)
     IN /\ gSet' = g.set
        /\ gClr' = g.clr
  /\ pc' = IF pkgPresent THEN "running" ELSE "crashed"
  /\ loads' = IF pkgPresent THEN loads + 1 ELSE loads
  /\ extended' = (extended \/ pkgPresent)
  /\ UNCHANGED <<pkgPresent, pre, host, held, clearedCI, clearedCT, inTurn>>

\* Test code starts running (a test body, an event handler).  The setup
\* module is evaluated before any test code.
StartTask ==
  /\ pc = "running"
  /\ ~inTurn
  /\ loads > 0
  /\ inTurn' = TRUE
  /\ UNCHANGED <<pkgPresent, extended, pc, gSet, gClr, pre, loads, host, held,
                 clearedCI, clearedCT>>

\* The synchronous code returns; the call stack is empty again.
EndTurn ==
  /\ pc = "running"
  /\ inTurn
  /\ inTurn' = FALSE
  /\ UNCHANGED <<pkgPresent, extended, pc, gSet, gClr, pre, loads, host, held,
                 clearedCI, clearedCT>>

Fns == 1..Len(held)
RanFns == {host.ran[i].fn : i \in 1..Len(host.ran)}

\* Running code calls global.setImmediate(fn) with a fresh callback fn.
CallSetImmediate ==
  /\ pc = "running"
  /\ inTurn
  /\ IsFunction(gSet)
  /\ Len(held) < MaxCalls
  /\ LET fn == Len(held) + 1
         r  == IF IsShim(gSet) THEN ShimSetImmediate(host, fn)
                               ELSE NativeSetImmediate(host, fn)
     IN /\ host' = r.host
        /\ held' = Append(held, [via |-> IF IsShim(gSet) THEN "shim" ELSE "native",
                                 h   |-> r.ret])
  /\ UNCHANGED <<pkgPresent, extended, pc, gSet, gClr, pre, loads,
                 clearedCI, clearedCT, inTurn>>

\* The delays of the model: zero, and 1 for every positive delay.
Delays == {0, 1}

\* Running code calls setTimeout(fn, d) itself.
CallSetTimeout ==
  /\ pc = "running"
  /\ inTurn
  /\ Len(held) < MaxCalls
  /\ \E d \in Delays :
       LET fn == Len(held) + 1
           r  == setTimeout(host, fn, d)
       IN /\ host' = r.host
          /\ held' = Append(held, [via |-> "setTimeout", h |-> r.ret])
  /\ UNCHANGED <<pkgPresent, extended, pc, gSet, gClr, pre, loads,
                 clearedCI, clearedCT, inTurn>>

\* The handles running code can pass: those it was given, and undefined.
Handles == {held[f].h : f \in Fns} \cup {NoHandle}
\* The callbacks still waiting in the host: in a timer or in an immediate.
PendingFns ==
  {host.timers[i].fn : i \in 1..Len(host.timers)}
    \cup {host.immediates[i].fn : i \in 1..Len(host.immediates)}
\* The callbacks a handle stands for that have not fired yet.
NotYetRun(id) == {f \in Fns : held[f].h = id /\ f \in PendingFns}

\* Running code calls global.clearImmediate(id).  What the runtime's own
\* clearImmediate does with the handle of a timer differs between hosts: it
\* ignores it, or it cancels the timer.
CallClearImmediate ==
  /\ pc = "running"
  /\ inTurn
  /\ IsFunction(gClr)
  /\ \E id \in Handles :
       /\ host' \in IF IsShim(gClr)
                      THEN {ShimClearImmediate(host, id)}
                      ELSE {NativeClearImmediate(host, id),
                            clearTimeout(NativeClearImmediate(host, id), id)}
       /\ clearedCI' = clearedCI \cup NotYetRun(id)
  /\ UNCHANGED <<pkgPresent, extended, pc, gSet, gClr, pre, loads, held,
                 clearedCT, inTurn>>

\* Running code calls clearTimeout(id) itself.
CallClearTimeout ==
  /\ pc = "running"
  /\ inTurn
  /\ \E id \in Handles :
       /\ host' = clearTimeout(host, id)
       /\ clearedCT' = clearedCT \cup NotYetRun(id)
  /\ UNCHANGED <<pkgPresent, extended, pc, gSet, gClr, pre, loads, held,
                 clearedCI, inTurn>>

\* Timers of delay zero fire in the order they were registered.  A timer of
\* positive delay fires whenever the host finds it due.
Fireable(i) ==
  host.timers[i].delay = 0 => \A j \in 1..(i - 1) : host.timers[j].delay # 0

RemoveAt(s, i) == SubSeq(s, 1, i - 1) \o SubSeq(s, i + 1, Len(s))

\* The event loop, with an empty call stack, runs a timer's callback.
FireTimer ==
  /\ pc = "running"
  /\ ~inTurn
  /\ \E i \in 1..Len(host.timers) :
       /\ Fireable(i)
       /\ host' = Invoke([host EXCEPT !.timers = RemoveAt(@, i)],
                         host.timers[i].fn)
  /\ inTurn' = TRUE
  /\ UNCHANGED <<pkgPresent, extended, pc, gSet, gClr, pre, loads, held,
                 clearedCI, clearedCT>>

\* The event loop runs the oldest native immediate.
RunImmediate ==
  /\ pc = "running"
  /\ ~inTurn
  /\ Len(host.immediates) > 0
  /\ host' = Invoke([host EXCEPT !.immediates = Tail(@)],
                    Head(host.immediates).fn)
  /\ inTurn' = TRUE
  /\ UNCHANGED <<pkgPresent, extended, pc, gSet, gClr, pre, loads, held,
                 clearedCI, clearedCT>>

Next ==
  \/ Load
  \/ StartTask
  \/ EndTurn
  \/ CallSetImmediate
  \/ CallSetTimeout
  \/ CallClearImmediate
  \/ CallClearTimeout
  \/ FireTimer
  \/ RunImmediate

Spec == Init /\ [][Next]_vars

\* The event loop keeps dispatching: synchronous code returns, and the
\* timers phase of the loop is reached again and again whatever else runs.
FairSpec == Spec /\ WF_vars(EndTurn) /\ SF_vars(FireTimer)

\* ------------------------------------------------------------- properties
\* The callbacks scheduled through the setImmediate shim.
ShimFns == {f \in Fns : held[f].via = "shim"}
\* The callbacks whose handle was passed to a cancelling call while pending.
Cleared == clearedCI \cup clearedCT
\* How often callback f has run.
Count(f) == Cardinality({i \in 1..Len(host.ran) : host.ran[i].fn = f})
\* The timers left when the one with handle id, if any, is removed.
WithoutTimer(ts, id) == SelectSeq(ts, LAMBDA t : TimeoutHandle(t.id) # id)

\* C1: a binding that was defined before the module was loaded is, after any
\* number of loads, still the very same function object.
C1_NativeBindingsKept ==
  /\ IsFunction(pre.set) => gSet = pre.set
  /\ IsFunction(pre.clr) => gClr = pre.clr

C1_Witness ==
  /\ loads >= 1
  /\ pre.set = Native /\ pre.clr = Native
  /\ gSet = Native /\ gClr = Native

\* C2: when setImmediate was undefined before the load, a callback scheduled
\* through the shim whose handle was passed to global.clearImmediate before
\* it fired never runs, whether clearImmediate is the shim or the native one.
C2_ShimHandleCancellable ==
  pre.set = Undefined => \A f \in ShimFns \cap clearedCI : f \notin RanFns

\* C3: starting with neither binding defined, a callback scheduled through
\* the shim whose handle was passed to clearImmediate before its timer fired
\* has not run and is no longer pending, in every later state.
C3_ClearedNeverRuns ==
  (pre.set = Undefined /\ pre.clr = Undefined)
    => \A f \in ShimFns \cap clearedCI : f \notin RanFns /\ f \notin PendingFns

C3_Witness ==
  /\ pre.set = Undefined /\ pre.clr = Undefined
  /\ \E f \in ShimFns \cap clearedCI : \E g \in RanFns : g > f
  /\ ~inTurn
  /\ host.timers = <<>>

\* C4: a callback scheduled through the shim is never called while
\* synchronous code is on the call stack: it runs from the event loop only.
C4_NeverInline ==
  pre.set = Undefined
    => \A i \in 1..Len(host.ran) :
         host.ran[i].fn \in ShimFns => ~host.ran[i].sync

C4_Witness ==
  /\ pre.set = Undefined
  /\ \E i \in 1..Len(host.ran) : host.ran[i].fn \in ShimFns

\* C5: a call clearImmediate(h) through the shim removes the pending timer
\* with handle h, if there is one, and changes nothing else in the host.
\* While code runs, the steps that leave held and clearedCT alone are the
\* calls of global.clearImmediate (a clearTimeout with a handle that is not
\* pending changes nothing at all).
C5_ClearImmediateIsClearTimeout ==
  [][(inTurn /\ inTurn' /\ held' = held /\ clearedCT' = clearedCT /\ IsShim(gClr))
       => \E id \in Handles :
            /\ clearedCI' = clearedCI \cup NotYetRun(id)
            /\ host'.timers = WithoutTimer(host.timers, id)
            /\ host'.immediates = host.immediates
            /\ host'.ran = host.ran
            /\ host'.nextT = host.nextT
            /\ host'.nextI = host.nextI]_vars

C5_Witness ==
  /\ inTurn
  /\ pre.clr = Undefined /\ IsShim(gClr)
  /\ \E f \in clearedCI : f \notin PendingFns /\ f \notin RanFns
  /\ Len(host.timers) >= 1

\* C6: a load after the first changes neither binding, registers nothing
\* new and does not throw.
C6_LoadIdempotent ==
  [][(loads >= 1 /\ loads' = loads + 1)
       => /\ gSet' = gSet
          /\ gClr' = gClr
          /\ extended' = extended
          /\ pc' = "running"]_vars

C6_Witness ==
  /\ loads >= 2
  /\ gSet = Shim(1)
  /\ gClr = Native

\* C7: once the module has loaded, both global.setImmediate and
\* global.clearImmediate are functions, in every later state.
C7_BothDefinedAfterLoad ==
  loads >= 1 => IsFunction(gSet) /\ IsFunction(gClr)

C7_Witness ==
  /\ loads >= 1
  /\ pre.set = Undefined /\ pre.clr = Undefined
  /\ Len(host.ran) >= 1

\* C8: when the import fails the load throws at once: the bindings and the
\* matcher registry stay as they were, and nothing runs afterwards.
C8_ImportFailureAborts ==
  [][/\ pc = "running"
     /\ ~pkgPresent => /\ pc' = "crashed"
                       /\ gSet' = gSet
                       /\ gClr' = gClr
                       /\ extended' = extended
                       /\ loads' = loads
                       /\ host' = host]_vars

C8_Witness ==
  /\ pc = "crashed"
  /\ pre.set = Undefined
  /\ gSet = Undefined

\* C9: two callbacks scheduled through the shim, neither cancelled, run in
\* the order they were scheduled, whatever other timers are pending.
C9_RegistrationOrder ==
  \A i \in 1..Len(host.ran) :
    \A f \in ShimFns :
      (host.ran[i].fn \in ShimFns /\ f < host.ran[i].fn /\ f \notin Cleared)
        => \E j \in 1..(i - 1) : host.ran[j].fn = f

C9_Witness ==
  /\ Cardinality(ShimFns \cap RanFns) >= 2
  /\ \E f \in RanFns : held[f].via = "setTimeout"

\* C10: a callback scheduled through the shim whose handle is never passed
\* to a cancelling call runs exactly once: it never runs twice, it is
\* pending until it has run, and under fair dispatch it does run (again and
\* again a state is reached where every such callback scheduled so far has
\* run; as callbacks stay scheduled and run callbacks stay run, each one
\* scheduled is run from some point on).
C10_RunsExactlyOnce ==
  /\ [](\A f \in ShimFns :
          /\ Count(f) <= 1
          /\ f \notin Cleared => ((f \in PendingFns) # (Count(f) = 1)))
  /\ []<>(ShimFns \ Cleared \subseteq RanFns)

C10_Witness ==
  /\ \E f \in ShimFns : f \notin Cleared /\ Count(f) = 1
  /\ \E g \in ShimFns : g \in Cleared

====
